---- MODULE Spec2Model ----
(***************************************************************************)
(* Model of the abstract Curve base class                                  *)
(* (src/v3/src/paths/curves/Curve.js): the arc-length table and its cache, *)
(* the u -> t remapper and the sampling API built on them.                 *)
(*                                                                         *)
(* Numbers.  JavaScript numbers are modelled as exact rationals <<n, d>>   *)
(* in lowest terms with d > 0; the non-finite values are <<0, 0>> (NaN,    *)
(* also what arithmetic on `undefined` gives) and <<1, 0>>, <<-1, 0>>      *)
(* (+/-Infinity).  Rounding of IEEE doubles is not modelled.               *)
(*                                                                         *)
(* Points.  A point is <<x, y>>.  The evaluators used here all lie on the  *)
(* x axis, so that the Euclidean distance between two samples is |dx| and  *)
(* stays rational.                                                         *)
(***************************************************************************)
EXTENDS Integers, Sequences, FiniteSets, TLC

(***************************************************************************)
(* Bounds of the model.                                                    *)
(***************************************************************************)
\* largest explicit division count passed to getLengths / getPoints / ...
MaxDivisions == 2
\* largest value given to the instance field __arcLengthDivisions
MaxArcLengthDivisions == 3
\* parameters u, t are multiples of 1/MaxDen
MaxDen == 3
\* number of table arrays one run may allocate
MaxAllocs == 3
\* largest `segments` argument of computeFrenetFrames
MaxSegments == 3
\* largest number of tweens one follower is made to create
MaxTweens == 2

(***************************************************************************)
(* Rational arithmetic.                                                    *)
(***************************************************************************)
Abs(a) == IF a < 0 THEN -a ELSE a

RECURSIVE GCD(_, _)
GCD(a, b) == IF b = 0 THEN a ELSE GCD(b, a % b)

\* the number n/d (d # 0) in lowest terms with a positive denominator
Norm(n, d) ==
    LET s == IF d < 0 THEN -1 ELSE 1
        g == GCD(Abs(n), Abs(d))
    IN  <<(s * n) \div g, (s * d) \div g>>

NaN == <<0, 0>>
Infinity == <<1, 0>>
NegInfinity == <<-1, 0>>
Rat(n, d) == Norm(n, d)
FromInt(n) == <<n, 1>>
Zero == <<0, 1>>
One == <<1, 1>>

IsFinite(a) == a[2] # 0
IsNaN(a) == a = NaN
Sign(a) == IF a[1] < 0 THEN -1 ELSE IF a[1] > 0 THEN 1 ELSE 0

RNeg(a) == <<-a[1], a[2]>>

RAdd(a, b) ==
    IF IsNaN(a) \/ IsNaN(b) THEN NaN
    ELSE IF ~IsFinite(a) THEN (IF ~IsFinite(b) /\ b # a THEN NaN ELSE a)
    ELSE IF ~IsFinite(b) THEN b
    ELSE IF a[2] < 1000 /\ b[2] < 1000
    THEN Norm(a[1] * b[2] + b[1] * a[2], a[2] * b[2])
    ELSE Norm(a[1] * (b[2] \div GCD(a[2], b[2]))
                  + b[1] * (a[2] \div GCD(a[2], b[2])),
              a[2] * (b[2] \div GCD(a[2], b[2])))

RSub(a, b) == RAdd(a, RNeg(b))

RMul(a, b) ==
    IF IsNaN(a) \/ IsNaN(b) THEN NaN
    ELSE IF ~IsFinite(a) \/ ~IsFinite(b)
         THEN (IF Sign(a) * Sign(b) = 0 THEN NaN ELSE <<Sign(a) * Sign(b), 0>>)
    ELSE Norm(a[1] * b[1], a[2] * b[2])

RDiv(a, b) ==
    IF IsNaN(a) \/ IsNaN(b) THEN NaN
    ELSE IF ~IsFinite(b) THEN (IF IsFinite(a) THEN Zero ELSE NaN)
    ELSE IF ~IsFinite(a) THEN <<Sign(a) * (IF Sign(b) < 0 THEN -1 ELSE 1), 0>>
    ELSE IF b[1] = 0 THEN <<Sign(a), 0>>
    ELSE Norm(a[1] * b[2], a[2] * b[1])

\* a < b; every comparison with NaN is false
RLt(a, b) ==
    IF IsNaN(a) \/ IsNaN(b) THEN FALSE
    ELSE IF ~IsFinite(a) \/ ~IsFinite(b)
         THEN (IF ~IsFinite(a) /\ ~IsFinite(b) THEN Sign(a) < Sign(b)
               ELSE IF ~IsFinite(a) THEN Sign(a) < 0 ELSE Sign(b) > 0)
    ELSE IF a[2] < 1000 /\ b[2] < 1000 THEN a[1] * b[2] < b[1] * a[2]
    ELSE a[1] * (b[2] \div GCD(a[2], b[2]))
             < b[1] * (a[2] \div GCD(a[2], b[2]))

RLe(a, b) == ~IsNaN(a) /\ ~IsNaN(b) /\ (a = b \/ RLt(a, b))

RAbs(a) == <<Abs(a[1]), a[2]>>

(***************************************************************************)
(* Input domains.                                                          *)
(***************************************************************************)
Half == <<1, 2>>

\* the parameters 0, 1/MaxDen, ..., 1, and 1/2 (the straight-line example)
Unit == {Rat(d, MaxDen) : d \in 0..MaxDen} \cup {Half}

\* division arguments; 0 stands for an omitted (undefined) argument as well
DivisionArgs == 0..MaxDivisions

\* division arguments of getLengths (10: the straight-line example)
LengthDivisionArgs == DivisionArgs \cup {10}

\* values the curve's owner gives this.__arcLengthDivisions (0 in the
\* operators below stands for a field that was never set)
ArcLengthDivisionValues == 1..MaxArcLengthDivisions

\* marks an omitted `distance` argument
Undefined == <<0, -1>>

\* a first argument outside [0, 1], as a caller that supplies a distance
\* may pass
Two == <<2, 1>>

\* arguments of getUtoTmapping: <<u, Undefined>> for a call without
\* distance, <<u, f>> for a call with the distance f * (total length)
UtoTArgs ==
    {<<u, Undefined>> : u \in Unit}
        \cup {<<u, f>> : u \in {Zero, One, Two}, f \in {Zero, Half, One}}

\* arguments of getTangent: the parameters of Unit and two parameters
\* closer to an end of the domain than getTangent's delta
TangentArgs == Unit \cup {<<1, 20000>>, <<19999, 20000>>}

(***************************************************************************)
(* Evaluators (concrete curve shapes, supplied by subclasses).             *)
(***************************************************************************)
\*   line      (10t, 0): uniform speed, length 10
\*   stall     at rest on [0, 1/3] and on [2/3, 1], moving in between
\*   vee       from (1, 0) to the origin and back: x is not monotone
\*   slowFast  speed 1 on [0, 1/2], speed 3 on [1/2, 1]
\*   point     a curve of length zero
Shapes == {"line", "stall", "vee", "slowFast", "point"}

Third == Rat(1, 3)
TwoThirds == Rat(2, 3)

ShapeX(shape, t) ==
    IF ~IsFinite(t) THEN NaN
    ELSE CASE shape = "line" -> RMul(FromInt(10), t)
           [] shape = "stall" -> IF RLt(t, Third) THEN Zero
                                 ELSE IF RLt(TwoThirds, t) THEN One
                                 ELSE RSub(RMul(FromInt(3), t), One)
           [] shape = "vee" -> RAbs(RSub(RMul(FromInt(2), t), One))
           [] shape = "slowFast" -> IF RLt(t, Half) THEN t ELSE RSub(RMul(FromInt(3), t), One)
           [] shape = "point" -> Zero

\* this.getPoint(t) of the concrete shape
getPoint(shape, t) == <<ShapeX(shape, t), Zero>>

\* Vector.distanceTo for two points with the same y
distanceTo(p, q) == RAbs(RSub(p[1], q[1]))

(***************************************************************************)
(* The arc-length table: getLengths.                                       *)
(***************************************************************************)
\* fallback division count when __arcLengthDivisions is not set
DefaultArcLengthDivisions == 200

\* the divisions getLengths works with after its `if (!divisions)` block
EffectiveDivisions(ald, divisions) ==
    IF divisions = 0
    THEN (IF ald # 0 THEN ald ELSE DefaultArcLengthDivisions)
    ELSE divisions

\* LengthsLoop pushing each segment's length instead of the running sum
RECURSIVE LengthsLoopNoSum(_, _, _, _)
LengthsLoopNoSum(shape, divisions, p, acc) ==
    IF p <= divisions
    THEN LET current == getPoint(shape, Rat(p, divisions))
             sum == distanceTo(current, acc.last)
         IN  LengthsLoopNoSum(shape, divisions, p + 1,
                 [last |-> current, sum |-> sum,
                  cache |-> Append(acc.cache, sum),
                  sampled |-> Append(acc.sampled, Rat(p, divisions))])
    ELSE acc

\* the `for (p = 1; p <= divisions; p++)` loop of getLengths; acc carries
\* the local variables last, sum, cache and the parameters given to getPoint
RECURSIVE LengthsLoop(_, _, _, _)
LengthsLoop(shape, divisions, p, acc) ==
    IF p <= divisions
    THEN LET current == getPoint(shape, Rat(p, divisions))
             sum == RAdd(acc.sum, distanceTo(current, acc.last))
         IN  LengthsLoop(shape, divisions, p + 1,
                 [last |-> current, sum |-> sum,
                  cache |-> Append(acc.cache, sum),
                  sampled |-> Append(acc.sampled, Rat(p, divisions))])
    ELSE acc

\* the table getLengths builds when it does not reuse the cache
BuildTable(shape, divisions) ==
    LengthsLoop(shape, divisions, 1,
        [last |-> getPoint(shape, Zero), sum |-> Zero,
         cache |-> <<Zero>>, sampled |-> <<Zero>>])

\* `this.needsUpdate = false; ... this.cacheArcLengths = cache; return cache`
\* for the freshly allocated array `built`
StoreTable(obj, built) ==
    [obj |-> [cacheArcLengths |-> built.cache, cacheId |-> obj.nextId + 1,
              needsUpdate |-> FALSE, nextId |-> obj.nextId + 1],
     ret |-> built.cache, retId |-> obj.nextId + 1, sampled |-> built.sampled]

\* `return this.cacheArcLengths`
ReuseTable(obj) ==
    [obj |-> obj, ret |-> obj.cacheArcLengths, retId |-> obj.cacheId,
     sampled |-> <<>>]

\* GetLengths comparing the cached length with divisions, not divisions + 1
GetLengthsOffByOne(shape, ald, obj, divisions) ==
    IF /\ obj.cacheId # 0
       /\ Len(obj.cacheArcLengths) = EffectiveDivisions(ald, divisions)
       /\ ~obj.needsUpdate
    THEN ReuseTable(obj)
    ELSE StoreTable(obj, BuildTable(shape, EffectiveDivisions(ald, divisions)))

\* GetLengths that never looks at the length of the cached table
GetLengthsAnyLength(shape, ald, obj, divisions) ==
    IF obj.cacheId # 0 /\ ~obj.needsUpdate
    THEN ReuseTable(obj)
    ELSE StoreTable(obj, BuildTable(shape, EffectiveDivisions(ald, divisions)))

\* getLengths(divisions) on a curve whose mutable fields are obj.
\* Result: the fields afterwards, the returned array (values and identity)
\* and the parameters at which getPoint was called.
GetLengths(shape, ald, obj, divisions) ==
    IF /\ obj.cacheId # 0
       /\ Len(obj.cacheArcLengths) = EffectiveDivisions(ald, divisions) + 1
       /\ ~obj.needsUpdate
    THEN ReuseTable(obj)
    ELSE StoreTable(obj, BuildTable(shape, EffectiveDivisions(ald, divisions)))

\* updateArcLengths without `this.needsUpdate = true`
UpdateArcLengthsNoFlag(shape, ald, obj) ==
    GetLengths(shape, ald, obj, 0)

\* updateArcLengths without the `this.getLengths()` call
UpdateArcLengthsFlagOnly(shape, ald, obj) ==
    [obj |-> [obj EXCEPT !.needsUpdate = TRUE], ret |-> <<>>, retId |-> 0,
     sampled |-> <<>>]

\* updateArcLengths()
UpdateArcLengths(shape, ald, obj) ==
    GetLengths(shape, ald, [obj EXCEPT !.needsUpdate = TRUE], 0)

(***************************************************************************)
(* The remapper: getUtoTmapping.                                           *)
(***************************************************************************)
\* arcLengths[i] with a 0-based index; out of range reads give undefined,
\* which every later arithmetic turns into NaN
At(arcLengths, i) ==
    IF i >= 0 /\ i < Len(arcLengths) THEN arcLengths[i + 1] ELSE NaN

\* a === b for numbers
StrictEq(a, b) == a[2] # 0 /\ a = b

\* SearchLoop with the two halves of the search exchanged
RECURSIVE SearchLoopSwapped(_, _, _, _)
SearchLoopSwapped(arcLengths, targetArcLength, low, high) ==
    IF low <= high
    THEN LET i == low + ((high - low) \div 2)
             comparison == RSub(At(arcLengths, i), targetArcLength)
         IN  IF RLt(Zero, comparison)
             THEN SearchLoopSwapped(arcLengths, targetArcLength, i + 1, high)
             ELSE IF RLt(comparison, Zero)
             THEN SearchLoopSwapped(arcLengths, targetArcLength, low, i - 1)
             ELSE i
    ELSE high

\* the `while (low <= high)` loop; the value is `high` after the loop
RECURSIVE SearchLoop(_, _, _, _)
SearchLoop(arcLengths, targetArcLength, low, high) ==
    IF low <= high
    THEN LET i == low + ((high - low) \div 2)
             comparison == RSub(At(arcLengths, i), targetArcLength)
         IN  IF RLt(comparison, Zero)
             THEN SearchLoop(arcLengths, targetArcLength, i + 1, high)
             ELSE IF RLt(Zero, comparison)
             THEN SearchLoop(arcLengths, targetArcLength, low, i - 1)
             ELSE i
    ELSE high

\* `if (distance)`: undefined, 0 and NaN are falsy
Truthy(distance) == distance # Undefined /\ distance # Zero /\ distance # NaN

TargetArcLength(arcLengths, u, distance) ==
    IF Truthy(distance) THEN distance
    ELSE RMul(u, At(arcLengths, Len(arcLengths) - 1))

\* Interpolate measuring the fraction from the far end of the segment
InterpolateInverted(arcLengths, targetArcLength, i) ==
    LET lengthBefore == At(arcLengths, i)
        lengthAfter == At(arcLengths, i + 1)
        segmentLength == RSub(lengthAfter, lengthBefore)
        segmentFraction ==
            RDiv(RSub(lengthAfter, targetArcLength), segmentLength)
    IN  RDiv(RAdd(FromInt(i), segmentFraction), FromInt(Len(arcLengths) - 1))

\* the interpolation between arcLengths[i] and arcLengths[i + 1]
Interpolate(arcLengths, targetArcLength, i) ==
    LET lengthBefore == At(arcLengths, i)
        lengthAfter == At(arcLengths, i + 1)
        segmentLength == RSub(lengthAfter, lengthBefore)
        segmentFraction ==
            RDiv(RSub(targetArcLength, lengthBefore), segmentLength)
    IN  RDiv(RAdd(FromInt(i), segmentFraction), FromInt(Len(arcLengths) - 1))

\* FromIndex dividing by il instead of il - 1 on an exact match
FromIndexWrongScale(arcLengths, targetArcLength, i) ==
    IF StrictEq(At(arcLengths, i), targetArcLength)
    THEN [ret |-> Rat(i, Len(arcLengths)), target |-> targetArcLength,
          i |-> i, exact |-> TRUE]
    ELSE [ret |-> Interpolate(arcLengths, targetArcLength, i),
          target |-> targetArcLength, i |-> i, exact |-> FALSE]

\* FromIndex without the exact-match return
FromIndexNoExact(arcLengths, targetArcLength, i) ==
    [ret |-> Interpolate(arcLengths, targetArcLength, i),
     target |-> targetArcLength, i |-> i, exact |-> FALSE]

\* getUtoTmapping from `i = high` on: the exact match or the interpolation
FromIndex(arcLengths, targetArcLength, i) ==
    IF StrictEq(At(arcLengths, i), targetArcLength)
    THEN [ret |-> Rat(i, Len(arcLengths) - 1), target |-> targetArcLength,
          i |-> i, exact |-> TRUE]
    ELSE [ret |-> Interpolate(arcLengths, targetArcLength, i),
          target |-> targetArcLength, i |-> i, exact |-> FALSE]

\* getUtoTmapping from the binary search on
FromTarget(arcLengths, targetArcLength) ==
    FromIndex(arcLengths, targetArcLength,
              SearchLoop(arcLengths, targetArcLength, 0, Len(arcLengths) - 1))

\* the part of getUtoTmapping after the table has been obtained
UtoT(arcLengths, u, distance) ==
    FromTarget(arcLengths, TargetArcLength(arcLengths, u, distance))

\* getUtoTmapping once `this.getLengths()` has returned `lengths`
Remap(lengths, u, distance) ==
    [obj |-> lengths.obj, sampled |-> lengths.sampled]
        @@ UtoT(lengths.ret, u, distance)

\* getUtoTmapping(u, distance)
GetUtoTmapping(shape, ald, obj, u, distance) ==
    Remap(GetLengths(shape, ald, obj, 0), u, distance)

(***************************************************************************)
(* The sampling API.                                                       *)
(***************************************************************************)
\* `return this.getPoint(t)` for the result m of getUtoTmapping
PointAtT(shape, m) ==
    [t |-> m.ret] @@ [m EXCEPT !.ret = getPoint(shape, m.ret)]

\* getPointAt(u)
GetPointAt(shape, ald, obj, u) ==
    PointAtT(shape, GetUtoTmapping(shape, ald, obj, u, Undefined))

\* divisions after `if (!divisions) { divisions = 5; }`
DefaultPoints == 5
PointDivisions(divisions) == IF divisions = 0 THEN DefaultPoints ELSE divisions

\* the loop of getPoints: points.push(this.getPoint(d / divisions))
RECURSIVE PointsLoop(_, _, _, _)
PointsLoop(shape, divisions, d, points) ==
    IF d <= divisions
    THEN PointsLoop(shape, divisions, d + 1,
             Append(points, getPoint(shape, Rat(d, divisions))))
    ELSE points

\* getPoints(divisions)
GetPoints(shape, divisions) ==
    PointsLoop(shape, PointDivisions(divisions), 0, <<>>)

\* points.push(r) for the result r of a getPointAt call
PushPoint(acc, r) ==
    [obj |-> r.obj, ret |-> Append(acc.ret, r.ret),
     sampled |-> acc.sampled \o r.sampled]

\* SpacedLoop calling getPoint(d / divisions) instead of getPointAt
RECURSIVE SpacedLoopNative(_, _, _, _, _)
SpacedLoopNative(shape, ald, divisions, d, acc) ==
    IF d <= divisions
    THEN SpacedLoopNative(shape, ald, divisions, d + 1,
             PushPoint(acc, [obj |-> acc.obj, sampled |-> <<>>,
                             ret |-> getPoint(shape, Rat(d, divisions))]))
    ELSE acc

\* the loop of getSpacedPoints: points.push(this.getPointAt(d / divisions));
\* acc carries the curve's fields, the points and the table samples taken
RECURSIVE SpacedLoop(_, _, _, _, _)
SpacedLoop(shape, ald, divisions, d, acc) ==
    IF d <= divisions
    THEN SpacedLoop(shape, ald, divisions, d + 1,
             PushPoint(acc, GetPointAt(shape, ald, acc.obj,
                                       Rat(d, divisions))))
    ELSE acc

\* getSpacedPoints(divisions)
GetSpacedPoints(shape, ald, obj, divisions) ==
    SpacedLoop(shape, ald, PointDivisions(divisions), 0,
        [obj |-> obj, ret |-> <<>>, sampled |-> <<>>])

\* `return lengths[lengths.length - 1]`
LastEntry(lengths) ==
    [obj |-> lengths.obj, ret |-> lengths.ret[Len(lengths.ret)],
     sampled |-> lengths.sampled]

\* getLength()
GetLength(shape, ald, obj) ==
    LastEntry(GetLengths(shape, ald, obj, 0))

\* Vector.normalize() on the x axis: a vector of positive length is scaled
\* to length 1, any other is left as it is
normalize(v) ==
    IF v[1][2] # 0 /\ v[1] # Zero THEN <<FromInt(Sign(v[1])), Zero>> ELSE v

\* pt2.clone().sub(pt1)
sub(pt2, pt1) == <<RSub(pt2[1], pt1[1]), RSub(pt2[2], pt1[2])>>

\* getTangent from the two clamped parameters on
TangentBetween(shape, t1, t2) ==
    [ret |-> normalize(sub(getPoint(shape, t2), getPoint(shape, t1))),
     t1 |-> t1, t2 |-> t2]

\* GetTangent without the two `if` blocks that cap t1 and t2
GetTangentUnclamped(shape, t) ==
    LET delta == Rat(1, 10000)
    IN  TangentBetween(shape, RSub(t, delta), RAdd(t, delta))

\* getTangent(t)
GetTangent(shape, t) ==
    LET delta == Rat(1, 10000)
        t1 == RSub(t, delta)
        t2 == RAdd(t, delta)
    IN  TangentBetween(shape,
            IF RLt(t1, Zero) THEN Zero ELSE t1,
            IF RLt(One, t2) THEN One ELSE t2)

\* `return this.getTangent(t)` for the result m of getUtoTmapping
TangentAtT(shape, m) ==
    LET tangent == GetTangent(shape, m.ret)
    IN  [t |-> m.ret, t1 |-> tangent.t1, t2 |-> tangent.t2]
            @@ [m EXCEPT !.ret = tangent.ret]

\* getTangentAt(u)
GetTangentAt(shape, ald, obj, u) ==
    TangentAtT(shape, GetUtoTmapping(shape, ald, obj, u, Undefined))

(***************************************************************************)
(* Numbers of the frame computation.                                       *)
(*                                                                         *)
(* The closed-curve correction rotates by theta * i with theta a fraction  *)
(* of a right angle, whose cosine and sine are irrational in general.  A   *)
(* number of the frame computation is therefore a form <<k, c, s>> of      *)
(* rationals standing for k + c * cos(a) + s * sin(a), where a is the      *)
(* correction angle of the index the number belongs to; a rational r is    *)
(* the form <<r, 0, 0>>.  Angles are rationals counting right angles.      *)
(***************************************************************************)
TConst(r) == <<r, Zero, Zero>>
TZero == TConst(Zero)
TOne == TConst(One)
TNaN == <<NaN, NaN, NaN>>
IsConst(f) == f[2] = Zero /\ f[3] = Zero

\* sum, difference and multiple; the special cases give what the general
\* one gives, at less cost
TAdd(f, g) ==
    IF g = TZero THEN f ELSE IF f = TZero THEN g
    ELSE IF IsConst(f) /\ IsConst(g) THEN <<RAdd(f[1], g[1]), Zero, Zero>>
    ELSE <<RAdd(f[1], g[1]), RAdd(f[2], g[2]), RAdd(f[3], g[3])>>
TSub(f, g) ==
    IF g = TZero THEN f
    ELSE IF IsConst(f) /\ IsConst(g) THEN <<RSub(f[1], g[1]), Zero, Zero>>
    ELSE <<RSub(f[1], g[1]), RSub(f[2], g[2]), RSub(f[3], g[3])>>
TScale(r, f) ==
    IF r = One THEN f
    ELSE IF IsConst(f) /\ IsFinite(r) THEN <<RMul(r, f[1]), Zero, Zero>>
    ELSE <<RMul(r, f[1]), RMul(r, f[2]), RMul(r, f[3])>>

\* the product of two numbers of which one is a rational (two forms that
\* both depend on the angle are never multiplied by the frame computation)
TMul(f, g) ==
    IF IsConst(f) THEN TScale(f[1], g)
    ELSE IF IsConst(g) THEN TScale(g[1], f)
    ELSE TNaN

\* Math.abs and the comparisons, on rationals
TAbs(f) == IF IsConst(f) THEN TConst(RAbs(f[1])) ELSE TNaN
TLe(f, g) == IsConst(f) /\ IsConst(g) /\ RLe(f[1], g[1])
TLt(f, g) == IsConst(f) /\ IsConst(g) /\ RLt(f[1], g[1])

\* Math.sqrt of a rational that is the square of a rational
Sqrt(r) ==
    IF r[2] > 0 /\ r[1] >= 0
       /\ \E a \in 0..r[1] : \E b \in 1..r[2] : a * a = r[1] /\ b * b = r[2]
    THEN <<CHOOSE a \in 0..r[1] : a * a = r[1],
           CHOOSE b \in 1..r[2] : b * b = r[2]>>
    ELSE NaN

TSqrt(f) == IF IsConst(f) THEN TConst(Sqrt(f[1])) ELSE TNaN

\* Clamp(value, -1, 1)
Clamp(f, lo, hi) == IF TLt(f, lo) THEN lo ELSE IF TLt(hi, f) THEN hi ELSE f

\* Math.acos, in right angles, of the cosines 1, 0 and -1
Acos(f) ==
    IF f = TOne THEN Zero
    ELSE IF f = TZero THEN One
    ELSE IF f = TConst(RNeg(One)) THEN FromInt(2)
    ELSE NaN

\* Math.cos and Math.sin of an angle counted in right angles
Cos(a) ==
    IF ~IsFinite(a) THEN TNaN
    ELSE IF a[2] # 1 THEN <<Zero, One, Zero>>
    ELSE TConst(FromInt(CASE a[1] % 4 = 0 -> 1
                          [] a[1] % 4 = 2 -> -1
                          [] OTHER -> 0))

Sin(a) ==
    IF ~IsFinite(a) THEN TNaN
    ELSE IF a[2] # 1 THEN <<Zero, Zero, One>>
    ELSE TConst(FromInt(CASE a[1] % 4 = 1 -> 1
                          [] a[1] % 4 = 3 -> -1
                          [] OTHER -> 0))

(***************************************************************************)
(* Vector3 and Matrix4 (the rotation part).                                *)
(***************************************************************************)
Vec3(x, y, z) == <<TConst(FromInt(x)), TConst(FromInt(y)), TConst(FromInt(z))>>

\* a.dot(b)
dot(a, b) ==
    TAdd(TAdd(TMul(a[1], b[1]), TMul(a[2], b[2])), TMul(a[3], b[3]))

\* out.crossVectors(a, b)
crossVectors(a, b) ==
    <<TSub(TMul(a[2], b[3]), TMul(a[3], b[2])),
      TSub(TMul(a[3], b[1]), TMul(a[1], b[3])),
      TSub(TMul(a[1], b[2]), TMul(a[2], b[1]))>>

\* v.length()
length(v) == TSqrt(dot(v, v))

\* v.normalize(): a vector of positive length is scaled to length 1
normalize3(v) ==
    IF TLt(TZero, dot(v, v))
    THEN LET len == length(v)
         IN  <<TScale(RDiv(One, len[1]), v[1]),
               TScale(RDiv(One, len[1]), v[2]),
               TScale(RDiv(One, len[1]), v[3])>>
    ELSE v

\* mat.makeRotationAxis(axis, angle): the rotation by angle about axis,
\* counter-clockwise seen from the tip of the axis; rows of the 3x3 part
makeRotationAxis(axis, angle) ==
    LET c == Cos(angle)
        s == Sin(angle)
        t == TSub(TOne, c)
        x == axis[1]
        y == axis[2]
        z == axis[3]
        tx == TMul(t, x)
        ty == TMul(t, y)
    IN  << <<TAdd(TMul(tx, x), c),
             TSub(TMul(tx, y), TMul(s, z)),
             TAdd(TMul(tx, z), TMul(s, y))>>,
           <<TAdd(TMul(tx, y), TMul(s, z)),
             TAdd(TMul(ty, y), c),
             TSub(TMul(ty, z), TMul(s, x))>>,
           <<TSub(TMul(tx, z), TMul(s, y)),
             TAdd(TMul(ty, z), TMul(s, x)),
             TAdd(TMul(TMul(t, z), z), c)>> >>

\* v.transformMat4(mat) for a matrix without translation
transformMat4(v, mat) == <<dot(mat[1], v), dot(mat[2], v), dot(mat[3], v)>>

(***************************************************************************)
(* computeFrenetFrames.                                                    *)
(***************************************************************************)
\* In the definitions below an intermediate result that is used more than
\* once is bound by a CHOOSE over a one-element set, which evaluates it
\* once.
\* Number.EPSILON is 2^-52; integers here have 32 bits, and any positive
\* number below the lengths that occur gives the same comparisons
EPSILON == TConst(<<1, 1073741824>>)

\* Number.MAX_VALUE, as the largest number available here
MAX_VALUE == TConst(<<2147483647, 1>>)

\* the three `if (t? <= min)` blocks that choose the world axis `normal`
SeedAxis(t0) ==
    LET afterX == IF TLe(TAbs(t0[1]), MAX_VALUE)
                  THEN [min |-> TAbs(t0[1]), normal |-> Vec3(1, 0, 0)]
                  ELSE [min |-> MAX_VALUE, normal |-> Vec3(0, 0, 0)]
        afterY == IF TLe(TAbs(t0[2]), afterX.min)
                  THEN [min |-> TAbs(t0[2]), normal |-> Vec3(0, 1, 0)]
                  ELSE afterX
    IN  IF TLe(TAbs(t0[3]), afterY.min) THEN Vec3(0, 0, 1) ELSE afterY.normal

\* normals[0] and binormals[0]
InitialFrame(t0) ==
    LET vec == normalize3(crossVectors(t0, SeedAxis(t0)))
        normal == crossVectors(t0, vec)
    IN  [normal |-> normal, binormal |-> crossVectors(t0, normal)]

\* TransportStep that leaves binormals[i] the clone of binormals[i - 1]
TransportStepKeepsBinormal(tPrev, t, nPrev, bPrev) ==
    LET vec == crossVectors(tPrev, t)
        normal ==
            IF TLt(EPSILON, length(vec))
            THEN transformMat4(nPrev,
                     makeRotationAxis(normalize3(vec),
                         Acos(Clamp(dot(tPrev, t), TConst(RNeg(One)), TOne))))
            ELSE nPrev
    IN  [normal |-> normal, binormal |-> bPrev]

\* TransportStep without the `vec.length() > Number.EPSILON` test
TransportStepAlwaysRotates(tPrev, t, nPrev, bPrev) ==
    LET vec == crossVectors(tPrev, t)
        normal ==
            transformMat4(nPrev,
                makeRotationAxis(normalize3(vec),
                    Acos(Clamp(dot(tPrev, t), TConst(RNeg(One)), TOne))))
    IN  [normal |-> normal, binormal |-> crossVectors(t, normal)]

\* one pass of the parallel-transport loop: normals[i] and binormals[i]
\* from the clones nPrev, bPrev of normals[i - 1] and binormals[i - 1]
TransportStep(tPrev, t, nPrev, bPrev) ==
    CHOOSE result \in
        {[normal |-> normal, binormal |-> crossVectors(t, normal)] :
         normal \in
             {IF TLt(EPSILON, length(vec))
              THEN transformMat4(nPrev,
                       makeRotationAxis(normalize3(vec),
                           Acos(Clamp(dot(tPrev, t), TConst(RNeg(One)),
                                      TOne))))
              ELSE nPrev :
              vec \in {crossVectors(tPrev, t)}}} : TRUE

\* the loop `for (i = 1; i <= segments; i++)` of the parallel transport
RECURSIVE TransportLoop(_, _, _, _)
TransportLoop(tangents, segments, i, acc) ==
    IF i <= segments
    THEN CHOOSE result \in
             {TransportLoop(tangents, segments, i + 1,
                  [normals |-> Append(acc.normals, step.normal),
                   binormals |-> Append(acc.binormals, step.binormal)]) :
              step \in {TransportStep(tangents[i], tangents[i + 1],
                                      acc.normals[i], acc.binormals[i])}} :
             TRUE
    ELSE acc

\* TwistTheta without the `theta = - theta` block
TwistThetaUnsigned(tangents, normals, segments) ==
    RDiv(Acos(Clamp(dot(normals[1], normals[segments + 1]),
                    TConst(RNeg(One)), TOne)),
         FromInt(segments))

\* theta of the closed-curve correction, in right angles
TwistTheta(tangents, normals, segments) ==
    LET theta == RDiv(Acos(Clamp(dot(normals[1], normals[segments + 1]),
                                 TConst(RNeg(One)), TOne)),
                      FromInt(segments))
    IN  IF TLt(TZero, dot(tangents[1],
                          crossVectors(normals[1], normals[segments + 1])))
        THEN RNeg(theta)
        ELSE theta

\* one pass of the correction loop: normals[i] is rotated about
\* tangents[i] by theta * i and binormals[i] recomputed from it
TwistStep(tangents, theta, i, acc) ==
    LET normal == transformMat4(acc.normals[i + 1],
                      makeRotationAxis(tangents[i + 1],
                                       RMul(theta, FromInt(i))))
    IN  [normals |-> [acc.normals EXCEPT ![i + 1] = normal],
         binormals |-> [acc.binormals EXCEPT
                            ![i + 1] = crossVectors(tangents[i + 1], normal)]]

\* the loop `for (i = 1; i <= segments; i++)` of the `if (closed)` block
RECURSIVE TwistLoop(_, _, _, _, _)
TwistLoop(tangents, segments, theta, i, acc) ==
    IF i <= segments
    THEN CHOOSE result \in
             {TwistLoop(tangents, segments, theta, i + 1, next) :
              next \in {TwistStep(tangents, theta, i, acc)}} : TRUE
    ELSE acc

\* the `if (closed)` block
CloseFrames(tangents, segments, acc) ==
    CHOOSE result \in
        {TwistLoop(tangents, segments, theta, 1, acc) :
         theta \in {TwistTheta(tangents, acc.normals, segments)}} : TRUE

\* computeFrenetFrames from the parallel transport on, for the normalized
\* tangents; `transported` keeps the frames as they were before the
\* `if (closed)` block
FramesFrom(tangents, segments, closed) ==
    CHOOSE result \in
        {[tangents |-> tangents, normals |-> final.normals,
          binormals |-> final.binormals, transported |-> transported] :
         <<transported, final>> \in
             {<<t, IF closed THEN CloseFrames(tangents, segments, t) ELSE t>> :
              t \in {TransportLoop(tangents, segments, 1,
                         [normals |-> <<first.normal>>,
                          binormals |-> <<first.binormal>>]) :
                     first \in {InitialFrame(tangents[1])}}}} : TRUE

\* computeFrenetFrames(segments, closed) on a curve whose getTangentAt
\* returns sampled[i + 1] at u = i / segments
ComputeFrenetFrames(segments, closed, sampled) ==
    FramesFrom([k \in 1..(segments + 1) |-> normalize3(sampled[k])],
               segments, closed)

(***************************************************************************)
(* PathFollower.  The tweens, the tween manager, the Path and the Sprite   *)
(* it builds on are described by the operations the follower uses.         *)
(***************************************************************************)
\* TWEEN_CONST: states of a tween and of its tween data
TWEEN_CONST ==
    [PENDING_ADD |-> "PENDING_ADD",
     ACTIVE |-> "ACTIVE",
     PAUSED |-> "PAUSED",
     PENDING_REMOVE |-> "PENDING_REMOVE",
     REMOVED |-> "REMOVED",
     CREATED |-> "CREATED",
     PENDING_RENDER |-> "PENDING_RENDER",
     PLAYING_FORWARD |-> "PLAYING_FORWARD",
     PLAYING_BACKWARD |-> "PLAYING_BACKWARD",
     COMPLETE |-> "COMPLETE"]

\* an argument that was not passed, and the null pathConfig
NoArg == [undefined |-> TRUE]
Null == [null |-> TRUE]

\* GetBoolean(source, key, defaultValue) and GetValue of a plain object
GetBoolean(source, key, defaultValue) ==
    IF key \in DOMAIN source THEN source[key] ELSE defaultValue

GetValue(source, key, defaultValue) ==
    IF key \in DOMAIN source THEN source[key] ELSE defaultValue

\* DegToRad, in right angles, of a multiple of 90 degrees
DegToRad(degrees) == degrees \div 90

\* Math.atan2(y, x) of integers, as <<b, k>>: the angle of the direction b,
\* which lies in [0, 90) degrees, plus k right angles; the result of atan2
\* lies in (-180, 180] degrees and atan2(0, 0) is 0
Atan2(y, x) ==
    IF x = 0 /\ y = 0 THEN <<<<1, 0>>, 0>>
    ELSE LET ax == IF x < 0 THEN -x ELSE x
             ay == IF y < 0 THEN -y ELSE y
             g == GCD(ax, ay)
             rx == ax \div g
             ry == ay \div g
         IN  IF x > 0 /\ y >= 0 THEN <<<<rx, ry>>, 0>>
             ELSE IF x <= 0 /\ y > 0 THEN <<<<ry, rx>>, 1>>
             ELSE IF x < 0 /\ y = 0 THEN <<<<1, 0>>, 2>>
             ELSE IF x < 0 /\ y < 0 THEN <<<<rx, ry>>, -2>>
             ELSE <<<<ry, rx>>, -1>>

\* angle + DegToRad(degrees)
AddAngle(angle, turns) == <<angle[1], angle[2] + turns>>

ZeroAngle == <<<<1, 0>>, 0>>

\* the paths: straight, from PathStart to PathEnd
Paths == {"pathA"}

PathStart(path) == <<0, 0>>

PathEnd(path) == <<20, 0>>

\* path.getPoint(t), with t counted in tenths
PathGetPoint(path, t) ==
    LET s == PathStart(path)
        e == PathEnd(path)
    IN  <<s[1] + ((e[1] - s[1]) * t) \div 10,
          s[2] + ((e[2] - s[2]) * t) \div 10>>

\* path.getStartPoint()
getStartPoint(path) == PathGetPoint(path, 0)

\* the tween tweens.addCounter(config) creates: it waits to be added, its
\* value (tween.data[0].current, in tenths) is 0
NewTween(config) ==
    [state |-> TWEEN_CONST.PENDING_ADD,
     data |-> [state |-> TWEEN_CONST.CREATED, current |-> 0],
     yoyo |-> GetBoolean(config, "yoyo", FALSE)]

isPlaying(tween) == tween.state = TWEEN_CONST.ACTIVE

isPaused(tween) == tween.state = TWEEN_CONST.PAUSED

getValue(tween) == tween.data.current

\* tween.pause(); the follower pauses playing tweens only, so that the
\* state pause() keeps for resume() is ACTIVE
TweenPause(tween) ==
    IF tween.state = TWEEN_CONST.PAUSED THEN tween
    ELSE [tween EXCEPT !.state = TWEEN_CONST.PAUSED]

\* tween.play(), of a tween that is not paused
TweenPlay(tween) ==
    IF tween.state \in {TWEEN_CONST.PENDING_REMOVE, TWEEN_CONST.REMOVED}
    THEN [tween EXCEPT !.state = TWEEN_CONST.ACTIVE,
                       !.data = [state |-> TWEEN_CONST.PENDING_RENDER, current |-> 0]]
    ELSE tween

\* tween.resume()
TweenResume(tween) ==
    IF tween.state = TWEEN_CONST.PAUSED THEN [tween EXCEPT !.state = TWEEN_CONST.ACTIVE]
    ELSE TweenPlay(tween)

\* tween.stop()
TweenStop(tween) == [tween EXCEPT !.state = TWEEN_CONST.PENDING_REMOVE]

\* TweenManager.preUpdate for one tween: a tween waiting to be added starts
\* to play, a tween waiting to be removed leaves the manager
TweenPreUpdate(tween) ==
    IF tween.state = TWEEN_CONST.PENDING_ADD
    THEN [tween EXCEPT !.state = TWEEN_CONST.ACTIVE, !.data.state = TWEEN_CONST.PENDING_RENDER]
    ELSE IF tween.state = TWEEN_CONST.PENDING_REMOVE
    THEN [tween EXCEPT !.state = TWEEN_CONST.REMOVED]
    ELSE tween

\* Tween.update for one tween, the frame advancing its value by delta
\* tenths: only an active tween moves; at the end it turns back (yoyo) or
\* completes
TweenUpdate(tween, delta) ==
    IF tween.state # TWEEN_CONST.ACTIVE THEN tween
    ELSE IF tween.data.state = TWEEN_CONST.PENDING_RENDER
    THEN [tween EXCEPT !.data.state = TWEEN_CONST.PLAYING_FORWARD]
    ELSE IF tween.data.state = TWEEN_CONST.PLAYING_FORWARD
    THEN IF tween.data.current + delta < 10
         THEN [tween EXCEPT !.data.current = @ + delta]
         ELSE IF tween.yoyo
         THEN [tween EXCEPT !.data = [state |-> TWEEN_CONST.PLAYING_BACKWARD,
                                      current |-> 10]]
         ELSE [tween EXCEPT !.data = [state |-> TWEEN_CONST.COMPLETE, current |-> 10],
                            !.state = TWEEN_CONST.PENDING_REMOVE]
    ELSE IF tween.data.state = TWEEN_CONST.PLAYING_BACKWARD
    THEN IF tween.data.current - delta > 0
         THEN [tween EXCEPT !.data.current = @ - delta]
         ELSE [tween EXCEPT !.data = [state |-> TWEEN_CONST.COMPLETE, current |-> 0],
                            !.state = TWEEN_CONST.PENDING_REMOVE]
    ELSE tween

\* the follower the constructor builds at (x, y); pathTween 0 is undefined,
\* otherwise the position of the tween in the tween manager
NewFollower(path, x, y) ==
    [path |-> path, rotateToPath |-> FALSE,
     pathRotationVerticalAdjust |-> FALSE, pathRotationOffset |-> 0,
     pathOffset |-> <<x, y>>, pathVector |-> <<0, 0>>, pathTween |-> 0,
     pathConfig |-> Null, prevDirection |-> TWEEN_CONST.PLAYING_FORWARD,
     x |-> x, y |-> y, rotation |-> ZeroAngle, flipY |-> FALSE]

\* a follower f with the tweens of the tween manager, and the operations a
\* method has invoked on tweens so far
World(f, tws) == [f |-> f, tweens |-> tws, ops |-> <<>>]

\* `if (tween && tween.isPlaying())`
HasPlayingTween(w) ==
    w.f.pathTween # 0 /\ isPlaying(w.tweens[w.f.pathTween])

\* the operation op is invoked on this.pathTween and changes it to tween
OnPathTween(w, op, tween) ==
    [w EXCEPT !.tweens[w.f.pathTween] = tween,
              !.ops = Append(@, <<op, w.f.pathTween>>)]

\* `if (tween && tween.isPlaying()) { tween.stop(); }`
StopIfPlaying(w) ==
    IF HasPlayingTween(w)
    THEN OnPathTween(w, "stop", TweenStop(w.tweens[w.f.pathTween]))
    ELSE w

\* start(config): startAt is not read
Start(w, arg) ==
    LET w1 == StopIfPlaying(w)
        given == IF arg = NoArg THEN [from |-> 0, to |-> 1]
                 ELSE IF "number" \in DOMAIN arg
                 THEN [from |-> 0, to |-> 1, duration |-> arg.number]
                 ELSE [from |-> 0, to |-> 1] @@ arg
        positionOnPath == GetBoolean(given, "positionOnPath", FALSE)
        rotateToPath == GetBoolean(given, "rotateToPath", FALSE)
        rotationOffset == GetValue(given, "rotationOffset", 0)
        start == getStartPoint(w1.f.path)
        x == IF positionOnPath THEN start[1] ELSE w1.f.x
        y == IF positionOnPath THEN start[2] ELSE w1.f.y
        nextPoint == PathGetPoint(w1.f.path, 1)
    IN  [f |-> [w1.f EXCEPT
                  !.rotateToPath = rotateToPath,
                  !.pathRotationOffset = rotationOffset,
                  !.pathRotationVerticalAdjust =
                      GetBoolean(given, "verticalAdjust", FALSE),
                  !.pathTween = Len(w1.tweens) + 1,
                  !.x = x,
                  !.y = y,
                  !.pathOffset = <<x - start[1], y - start[2]>>,
                  !.prevDirection = TWEEN_CONST.PLAYING_FORWARD,
                  !.rotation =
                      IF rotateToPath
                      THEN AddAngle(Atan2(nextPoint[2] - y, nextPoint[1] - x),
                                    DegToRad(rotationOffset))
                      ELSE @,
                  !.pathConfig = given],
         tweens |-> Append(w1.tweens, NewTween(given)),
         ops |-> Append(w1.ops, <<"addCounter", Len(w1.tweens) + 1>>)]

\* setPath(path, config)
SetPath(w, path, arg) ==
    LET config == IF arg = NoArg THEN w.f.pathConfig ELSE arg
        w1 == StopIfPlaying(w)
        w2 == [w1 EXCEPT !.f.path = path]
    IN  IF config # Null THEN Start(w2, config) ELSE w2

\* setRotateToPath(value, offset, verticalAdjust), its arguments as the
\* record of those that were passed
SetRotateToPath(w, a) ==
    [w EXCEPT !.f.rotateToPath = a.value,
              !.f.pathRotationOffset = GetValue(a, "offset", 0),
              !.f.pathRotationVerticalAdjust =
                  GetValue(a, "verticalAdjust", FALSE)]

\* isFollowing()
isFollowing(w) == HasPlayingTween(w)

\* pause()
Pause(w) ==
    IF HasPlayingTween(w)
    THEN OnPathTween(w, "pause", TweenPause(w.tweens[w.f.pathTween]))
    ELSE w

\* resume(), were it to resume whatever tween there is
ResumeAnyTween(w) ==
    IF w.f.pathTween # 0
    THEN OnPathTween(w, "resume", TweenResume(w.tweens[w.f.pathTween]))
    ELSE w

\* resume()
Resume(w) ==
    IF w.f.pathTween # 0 /\ isPaused(w.tweens[w.f.pathTween])
    THEN OnPathTween(w, "resume", TweenResume(w.tweens[w.f.pathTween]))
    ELSE w

\* stop()
Stop(w) == StopIfPlaying(w)

\* preUpdate(time, delta), were it not to look at the recorded direction: it
\* rotates on every frame the follower moved
PreUpdateEveryFrame(w) ==
    LET f == w.f
    IN  IF f.pathTween = 0 THEN w
        ELSE
        LET tweenData == w.tweens[f.pathTween].data
            p == PathGetPoint(f.path, getValue(w.tweens[f.pathTween]))
            pathVector == <<p[1] + f.pathOffset[1], p[2] + f.pathOffset[2]>>
            speedX == pathVector[1] - f.x
            speedY == pathVector[2] - f.y
            moved == [f EXCEPT !.pathVector = pathVector,
                               !.x = pathVector[1], !.y = pathVector[2]]
            rotation == AddAngle(Atan2(speedY, speedX),
                                 DegToRad(f.pathRotationOffset))
        IN  IF tweenData.state \notin {TWEEN_CONST.PLAYING_FORWARD, TWEEN_CONST.PLAYING_BACKWARD}
            THEN w
            ELSE IF speedX = 0 /\ speedY = 0
            THEN [w EXCEPT !.f = moved]
            ELSE IF f.rotateToPath
            THEN [w EXCEPT !.f = [moved EXCEPT
                     !.prevDirection = tweenData.state,
                     !.rotation = rotation,
                     !.flipY =
                         IF f.pathRotationVerticalAdjust
                         THEN rotation # ZeroAngle
                                  /\ tweenData.state = TWEEN_CONST.PLAYING_BACKWARD
                         ELSE @]]
            ELSE [w EXCEPT !.f = [moved EXCEPT
                                    !.prevDirection = tweenData.state]]

\* preUpdate(time, delta); the animation update is left out
PreUpdate(w) ==
    LET f == w.f
    IN  IF f.pathTween = 0 THEN w
        ELSE
        LET tweenData == w.tweens[f.pathTween].data
            p == PathGetPoint(f.path, getValue(w.tweens[f.pathTween]))
            pathVector == <<p[1] + f.pathOffset[1], p[2] + f.pathOffset[2]>>
            speedX == pathVector[1] - f.x
            speedY == pathVector[2] - f.y
            moved == [f EXCEPT !.pathVector = pathVector,
                               !.x = pathVector[1], !.y = pathVector[2]]
            rotation == AddAngle(Atan2(speedY, speedX),
                                 DegToRad(f.pathRotationOffset))
        IN  IF tweenData.state \notin {TWEEN_CONST.PLAYING_FORWARD, TWEEN_CONST.PLAYING_BACKWARD}
            THEN w
            ELSE IF speedX = 0 /\ speedY = 0
            THEN [w EXCEPT !.f = moved]
            ELSE IF tweenData.state # f.prevDirection
            THEN [w EXCEPT !.f = [moved EXCEPT
                                    !.prevDirection = tweenData.state]]
            ELSE IF f.rotateToPath
            THEN [w EXCEPT !.f = [moved EXCEPT
                     !.rotation = rotation,
                     !.flipY =
                         IF f.pathRotationVerticalAdjust
                         THEN rotation # ZeroAngle
                                  /\ tweenData.state = TWEEN_CONST.PLAYING_BACKWARD
                         ELSE @]]
            ELSE [w EXCEPT !.f = moved]

(***************************************************************************)
(* State.                                                                  *)
(***************************************************************************)
VARIABLES
    shape,               \* the concrete evaluator behind this.getPoint
    arcLengthDivisions,  \* this.__arcLengthDivisions
    cacheArcLengths,     \* this.cacheArcLengths (values of the array)
    cacheId,             \* identity of that array (0: no array yet)
    needsUpdate,         \* this.needsUpdate (undefined counts as false)
    nextId,              \* number of table arrays allocated so far
    call,                \* the last call made on the curve and its outcome
    hist,                \* the last getLengths call not yet followed by an
                         \* invalidation or a non-sampling call
    invalidatedAt,       \* nextId when updateArcLengths was last called
    frameArgs,           \* arguments of a computeFrenetFrames call and the
                         \* tangents the curve's getTangentAt returns for it
    frames,              \* what that computeFrenetFrames call returned
    follower,            \* the fields of the PathFollower
    tweens,              \* the tweens the tween manager was asked to create
    fcall,               \* the last step taken on the follower or the tween
                         \* manager, and the tween operations it invoked
    stopped              \* stop() was called, and neither start() nor a
                         \* setPath() that starts was called since

curveVars == <<shape, arcLengthDivisions, cacheArcLengths, cacheId,
               needsUpdate, nextId, call, hist, invalidatedAt>>

frameVars == <<frameArgs, frames>>

followerVars == <<follower, tweens, fcall, stopped>>

vars == <<curveVars, frameVars, followerVars>>

\* the mutable fields of the curve as one record
Obj == [cacheArcLengths |-> cacheArcLengths, cacheId |-> cacheId,
        needsUpdate |-> needsUpdate, nextId |-> nextId]

SetObj(o) ==
    /\ o.nextId <= MaxAllocs
    /\ cacheArcLengths' = o.cacheArcLengths
    /\ cacheId' = o.cacheId
    /\ needsUpdate' = o.needsUpdate
    /\ nextId' = o.nextId

NoHist == [n |-> 0, values |-> <<>>, remapped |-> FALSE]

NoCall == [op |-> "none", n |-> 0, u |-> Undefined, distance |-> Undefined,
           ret |-> <<>>, retId |-> 0, sampled |-> <<>>,
           target |-> Undefined, i |-> 0, t |-> Undefined, exact |-> FALSE,
           t1 |-> Undefined, t2 |-> Undefined,
           seq |-> "first", matched |-> FALSE]

\* no computeFrenetFrames call is under way
NoFrameArgs == [segments |-> 0, closed |-> FALSE, tangents |-> <<>>]

NoFrames == [tangents |-> <<>>, normals |-> <<>>, binormals |-> <<>>,
             transported |-> [normals |-> <<>>, binormals |-> <<>>]]

\* a curve on which no method has been called yet
NewCurve ==
    /\ cacheArcLengths = <<>>
    /\ cacheId = 0
    /\ needsUpdate = FALSE
    /\ nextId = 0
    /\ call = NoCall
    /\ hist = NoHist
    /\ invalidatedAt = 0

NoFrameCall == frameArgs = NoFrameArgs /\ frames = NoFrames

NoFollowerCall == [op |-> "none", ops |-> <<>>]

\* no follower was constructed
NoFollower ==
    /\ follower = Null
    /\ tweens = <<>>
    /\ fcall = NoFollowerCall
    /\ stopped = FALSE

Init ==
    /\ shape \in Shapes
    /\ arcLengthDivisions \in ArcLengthDivisionValues
    /\ NewCurve
    /\ NoFrameCall
    /\ NoFollower

\* the record of a call, with every field of NoCall
Recorded(m) ==
    [op |-> m.op, n |-> m.n, u |-> m.u, distance |-> m.distance,
     ret |-> m.ret, retId |-> m.retId, sampled |-> m.sampled,
     target |-> m.target, i |-> m.i, t |-> m.t, exact |-> m.exact,
     t1 |-> m.t1, t2 |-> m.t2, seq |-> m.seq, matched |-> m.matched]

\* the call `a` (operation and arguments) returns with the outcome r: the
\* curve's fields are written and the call is recorded
Return(a, r) ==
    /\ SetObj(r.obj)
    /\ call' = Recorded(a @@ [k \in DOMAIN r \ {"obj"} |-> r[k]] @@ NoCall)

\* a call that does not touch the curve's fields returns ret
ReturnPure(a, ret) ==
    /\ call' = Recorded(a @@ [ret |-> ret] @@ NoCall)
    /\ UNCHANGED <<cacheArcLengths, cacheId, needsUpdate, nextId>>

\* getTangent returns r.ret, having evaluated the curve at r.t1 and r.t2
ReturnTangent(a, r) ==
    /\ call' = Recorded(a @@ r @@ NoCall)
    /\ UNCHANGED <<cacheArcLengths, cacheId, needsUpdate, nextId>>

Remapped == hist' = [hist EXCEPT !.remapped = (hist.n # 0)]

\* how a length query at n divisions follows the recorded one: the first
\* at this count, or one more at the same count ("again"), possibly with
\* remapping calls in between
Sequel(n) ==
    IF hist.n # n THEN "first"
    ELSE IF hist.remapped THEN "againRemapped" ELSE "again"

\* a table of n + 1 entries is cached
Matched(n) == cacheId # 0 /\ Len(cacheArcLengths) = n + 1

(***************************************************************************)
(* One action per public method.                                           *)
(***************************************************************************)
CallGetLengths ==
    \E n \in LengthDivisionArgs :
        /\ Return([op |-> "getLengths", n |-> n,
                   seq |-> Sequel(EffectiveDivisions(arcLengthDivisions, n)),
                   matched |->
                       Matched(EffectiveDivisions(arcLengthDivisions, n))],
                  GetLengths(shape, arcLengthDivisions, Obj, n))
        /\ hist' = [n |-> EffectiveDivisions(arcLengthDivisions, n),
                    values |-> call'.ret, remapped |-> FALSE]
        /\ UNCHANGED <<frameVars, followerVars, shape, arcLengthDivisions, invalidatedAt>>

CallUpdateArcLengths ==
    /\ Return([op |-> "updateArcLengths",
               matched |->
                   Matched(EffectiveDivisions(arcLengthDivisions, 0))],
              UpdateArcLengths(shape, arcLengthDivisions, Obj))
    /\ hist' = NoHist
    /\ invalidatedAt' = nextId
    /\ UNCHANGED <<frameVars, followerVars, shape, arcLengthDivisions>>

\* the distance argument f * (total length), or none
DistanceArg(f, total) == IF f = Undefined THEN Undefined ELSE RMul(f, total)

CallGetUtoTmapping ==
    \E a \in UtoTArgs :
        /\ Return([op |-> "getUtoTmapping", u |-> a[1],
                   distance |-> DistanceArg(a[2],
                       GetLength(shape, arcLengthDivisions, Obj).ret)],
                  GetUtoTmapping(shape, arcLengthDivisions, Obj, a[1],
                      DistanceArg(a[2],
                          GetLength(shape, arcLengthDivisions, Obj).ret)))
        /\ hist' = NoHist
        /\ UNCHANGED <<frameVars, followerVars, shape, arcLengthDivisions, invalidatedAt>>

CallGetPoint ==
    \E t \in Unit :
        /\ ReturnPure([op |-> "getPoint", t |-> t], getPoint(shape, t))
        /\ UNCHANGED <<frameVars, followerVars, shape, arcLengthDivisions, hist, invalidatedAt>>

CallGetPointAt ==
    \E u \in Unit :
        /\ Return([op |-> "getPointAt", u |-> u],
                  GetPointAt(shape, arcLengthDivisions, Obj, u))
        /\ Remapped
        /\ UNCHANGED <<frameVars, followerVars, shape, arcLengthDivisions, invalidatedAt>>

CallGetPoints ==
    \E n \in DivisionArgs :
        /\ ReturnPure([op |-> "getPoints", n |-> n], GetPoints(shape, n))
        /\ UNCHANGED <<frameVars, followerVars, shape, arcLengthDivisions, hist, invalidatedAt>>

CallGetSpacedPoints ==
    \E n \in DivisionArgs :
        /\ Return([op |-> "getSpacedPoints", n |-> n],
                  GetSpacedPoints(shape, arcLengthDivisions, Obj, n))
        /\ Remapped
        /\ UNCHANGED <<frameVars, followerVars, shape, arcLengthDivisions, invalidatedAt>>

CallGetLength ==
    /\ Return([op |-> "getLength"],
              GetLength(shape, arcLengthDivisions, Obj))
    /\ Remapped
    /\ UNCHANGED <<frameVars, followerVars, shape, arcLengthDivisions, invalidatedAt>>

CallGetTangent ==
    \E t \in TangentArgs :
        /\ ReturnTangent([op |-> "getTangent", t |-> t],
                         GetTangent(shape, t))
        /\ UNCHANGED <<frameVars, followerVars, shape, arcLengthDivisions, hist, invalidatedAt>>

CallGetTangentAt ==
    \E u \in Unit :
        /\ Return([op |-> "getTangentAt", u |-> u],
                  GetTangentAt(shape, arcLengthDivisions, Obj, u))
        /\ Remapped
        /\ UNCHANGED <<frameVars, followerVars, shape, arcLengthDivisions, invalidatedAt>>

Next ==
    \/ CallGetLengths
    \/ CallUpdateArcLengths
    \/ CallGetUtoTmapping
    \/ CallGetPoint
    \/ CallGetPointAt
    \/ CallGetPoints
    \/ CallGetSpacedPoints
    \/ CallGetLength
    \/ CallGetTangent
    \/ CallGetTangentAt

Spec == Init /\ [][Next]_vars

(***************************************************************************)
(* computeFrenetFrames on a curve in space.  The tangents come from the    *)
(* concrete shape, through getTangentAt; they are drawn here from the unit *)
(* vectors along the axes, so that every cross product, length and angle   *)
(* of the parallel transport is exact.                                     *)
(***************************************************************************)
Axes == {Vec3(1, 0, 0), Vec3(-1, 0, 0), Vec3(0, 1, 0), Vec3(0, -1, 0),
         Vec3(0, 0, 1), Vec3(0, 0, -1)}

FrameArgs ==
    UNION {[segments : {n}, closed : BOOLEAN, tangents : [1..(n + 1) -> Axes]]
           : n \in 1..MaxSegments}

FrameInit ==
    /\ shape = "line"
    /\ arcLengthDivisions = 1
    /\ NewCurve
    /\ frameArgs \in FrameArgs
    /\ frames = NoFrames
    /\ NoFollower

\* the one computeFrenetFrames call of a run
CallComputeFrenetFrames ==
    /\ frames = NoFrames
    /\ frames' = ComputeFrenetFrames(frameArgs.segments, frameArgs.closed,
                                     frameArgs.tangents)
    /\ UNCHANGED <<curveVars, frameArgs, followerVars>>

FrameNext == CallComputeFrenetFrames

FrameSpec == FrameInit /\ [][FrameNext]_vars

(***************************************************************************)
(* The PathFollower in a scene: its methods are called in any order, and   *)
(* between them the tween manager adds, advances and removes tweens and    *)
(* the scene calls the follower's preUpdate.                               *)
(***************************************************************************)
\* what start and setPath are given as config
ConfigArgs ==
    {NoArg,
     [positionOnPath |-> TRUE, rotateToPath |-> TRUE, rotationOffset |-> 90,
      verticalAdjust |-> TRUE, yoyo |-> TRUE]}

\* where the follower is constructed
StartPositions == {<<10, 0>>}

\* how far, in tenths of the path, one frame advances a tween
Deltas == {5}

FollowerInit ==
    /\ shape = "line"
    /\ arcLengthDivisions = 1
    /\ NewCurve
    /\ NoFrameCall
    /\ \E path \in Paths, p \in StartPositions :
           follower = NewFollower(path, p[1], p[2])
    /\ tweens = <<>>
    /\ fcall = NoFollowerCall
    /\ stopped = FALSE

\* the method op returns, leaving the follower and the tweens as in w
FollowerReturn(op, w) ==
    /\ follower' = w.f
    /\ tweens' = w.tweens
    /\ fcall' = [op |-> op, ops |-> w.ops]
    /\ UNCHANGED <<curveVars, frameVars>>

CallStart ==
    \E arg \in ConfigArgs :
        /\ Len(tweens) < MaxTweens
        /\ FollowerReturn("start", Start(World(follower, tweens), arg))
        /\ stopped' = FALSE

CallSetPath ==
    \E path \in Paths, arg \in ConfigArgs :
        LET starts == (IF arg = NoArg THEN follower.pathConfig ELSE arg) # Null
        IN  /\ starts => Len(tweens) < MaxTweens
            /\ FollowerReturn("setPath",
                              SetPath(World(follower, tweens), path, arg))
            /\ stopped' = IF starts THEN FALSE ELSE stopped

\* what setRotateToPath is given
RotateToPathArgs ==
    {[value |-> TRUE]}

CallSetRotateToPath ==
    \E a \in RotateToPathArgs :
        /\ FollowerReturn("setRotateToPath",
                          SetRotateToPath(World(follower, tweens), a))
        /\ UNCHANGED stopped

CallPause ==
    /\ FollowerReturn("pause", Pause(World(follower, tweens)))
    /\ UNCHANGED stopped

CallResume ==
    /\ FollowerReturn("resume", Resume(World(follower, tweens)))
    /\ UNCHANGED stopped

CallStop ==
    /\ FollowerReturn("stop", Stop(World(follower, tweens)))
    /\ stopped' = TRUE

CallPreUpdate ==
    /\ FollowerReturn("preUpdate", PreUpdate(World(follower, tweens)))
    /\ UNCHANGED stopped

\* the tween manager's preUpdate: tweens are added and removed
ManagerPreUpdate ==
    /\ tweens' = [k \in DOMAIN tweens |-> TweenPreUpdate(tweens[k])]
    /\ fcall' = [op |-> "tweens.preUpdate", ops |-> <<>>]
    /\ UNCHANGED <<curveVars, frameVars, follower, stopped>>

\* the tween manager's update: the active tweens advance
ManagerUpdate ==
    \E delta \in Deltas :
        /\ tweens' = [k \in DOMAIN tweens |-> TweenUpdate(tweens[k], delta)]
        /\ fcall' = [op |-> "tweens.update", ops |-> <<>>]
        /\ UNCHANGED <<curveVars, frameVars, follower, stopped>>

FollowerNext ==
    \/ CallStart
    \/ CallSetPath
    \/ CallSetRotateToPath
    \/ CallPause
    \/ CallResume
    \/ CallStop
    \/ CallPreUpdate
    \/ ManagerPreUpdate
    \/ ManagerUpdate

FollowerSpec == FollowerInit /\ [][FollowerNext]_vars

(***************************************************************************)
(* Properties.                                                             *)
(***************************************************************************)
\* the parameters 0/n, 1/n, ..., n/n in order
AllParams(n) == [k \in 1..(n + 1) |-> Rat(k - 1, n)]

\* a sequence of numbers that starts at 0 and never decreases
IsTable(a) ==
    /\ Len(a) >= 1
    /\ a[1] = Zero
    /\ \A k \in 1..(Len(a) - 1) : RLe(a[k], a[k + 1])

\* the division count of a getLengths() call without argument
DefaultDivisions == EffectiveDivisions(arcLengthDivisions, 0)

\* C1: a getLengths(n) call made while a table of length n+1 is cached and
\* needsUpdate is false returns that very array with its values, calls
\* getPoint not once and leaves cache and flag as they were; n ranges over
\* the explicit counts and the omitted argument.
CacheReuseBackToBack ==
    [][(/\ call'.op = "getLengths"
        /\ cacheId # 0
        /\ Len(cacheArcLengths) =
               EffectiveDivisions(arcLengthDivisions, call'.n) + 1
        /\ ~needsUpdate)
       => (/\ call'.retId = cacheId
           /\ call'.ret = cacheArcLengths
           /\ call'.sampled = <<>>
           /\ UNCHANGED <<cacheArcLengths, cacheId, needsUpdate>>)]_vars

\* a getLengths call without argument was answered from the cache
CacheReuseWitness ==
    /\ call.op = "getLengths"
    /\ call.n = 0
    /\ call.matched
    /\ call.sampled = <<>>
    /\ call.retId = cacheId

\* C2 (as claimed): a getLengths(n) that follows a getLengths(n) with only
\* sampling calls and no invalidation in between returns the same values
\* and calls getPoint not once.
ReuseAcrossSampling ==
    [][(/\ call'.op = "getLengths"
        /\ hist.n = EffectiveDivisions(arcLengthDivisions, call'.n))
       => (call'.ret = hist.values /\ call'.sampled = <<>>)]_vars

\* C2 (amended): such a second getLengths(n) returns the same values; it
\* calls getPoint not once when n is the default division count or when no
\* call in between was getPointAt, getSpacedPoints, getTangentAt or
\* getLength, and otherwise it samples all n+1 parameters again.
ReuseAcrossSamplingAmended ==
    [][(/\ call'.op = "getLengths"
        /\ hist.n = EffectiveDivisions(arcLengthDivisions, call'.n))
       => (/\ call'.ret = hist.values
           /\ IF hist.n = DefaultDivisions \/ ~hist.remapped
              THEN call'.sampled = <<>>
              ELSE call'.sampled = AllParams(hist.n))]_vars

\* a second getLengths at the same count, after remapping calls, reused
\* the cache
ReuseAcrossSamplingWitness ==
    /\ call.op = "getLengths"
    /\ call.seq = "againRemapped"
    /\ call.sampled = <<>>

\* C3: a getLengths(n) entered with needsUpdate true samples the n+1
\* parameters d/n, stores and returns a new array and clears the flag,
\* whatever the length of the cached table; no array allocated before the
\* last updateArcLengths is returned by a length query or kept in the cache
\* after it.
Invalidation ==
    /\ \A n \in LengthDivisionArgs :
           LET r == GetLengths(shape, arcLengthDivisions,
                               [Obj EXCEPT !.needsUpdate = TRUE], n)
           IN  /\ r.sampled =
                      AllParams(EffectiveDivisions(arcLengthDivisions, n))
               /\ r.retId > nextId
               /\ r.obj.cacheId = r.retId
               /\ r.obj.cacheArcLengths = r.ret
               /\ ~r.obj.needsUpdate
    /\ call.op = "updateArcLengths"
           => (/\ call.sampled = AllParams(DefaultDivisions)
               /\ cacheId = call.retId
               /\ cacheArcLengths = call.ret
               /\ ~needsUpdate)
    /\ call.op \in {"getLengths", "updateArcLengths"}
           => call.retId > invalidatedAt
    /\ cacheId # 0 => cacheId > invalidatedAt

\* updateArcLengths was called while a table of the default length was
\* cached, and built a new one
InvalidationWitness ==
    /\ call.op = "updateArcLengths"
    /\ call.matched
    /\ invalidatedAt >= 1
    /\ call.retId > invalidatedAt
    /\ call.sampled # <<>>

\* C4: every table returned by getLengths(n) has n+1 entries, starts at 0
\* and never decreases, and so does the cached table, whose length is one
\* more than the division count of the call that built it.
TableShape ==
    /\ call.op = "getLengths"
           => (/\ Len(call.ret) =
                      EffectiveDivisions(arcLengthDivisions, call.n) + 1
               /\ IsTable(call.ret))
    /\ cacheId # 0 => IsTable(cacheArcLengths)
    /\ (call.sampled # <<>> /\ call.op # "getLengths")
           => Len(cacheArcLengths) = DefaultDivisions + 1
    /\ call.sampled # <<>> => Len(cacheArcLengths) = Len(call.sampled)

\* a table with a zero-length segment between two moving ones is cached
TableShapeWitness ==
    /\ cacheId # 0
    /\ Len(cacheArcLengths) = 4
    /\ cacheArcLengths[2] # Zero
    /\ cacheArcLengths[2] = cacheArcLengths[3]
    /\ cacheArcLengths[3] # cacheArcLengths[4]

\* C5 (as claimed): getUtoTmapping(0) is 0 and getUtoTmapping(1) is 1.
RemapBoundaryParameter ==
    (call.op = "getUtoTmapping" /\ call.distance = Undefined)
    => (/\ call.u = Zero => call.ret = Zero
        /\ call.u = One => call.ret = One)

\* C6: getPointAt(0) is the point getPoint(0) and getPointAt(1) is the
\* point getPoint(1).
RemapBoundaryPoint ==
    call.op = "getPointAt"
    => (/\ call.u = Zero => call.ret = getPoint(shape, Zero)
        /\ call.u = One => call.ret = getPoint(shape, One))

\* getPointAt(1) was evaluated on a curve that moves
RemapBoundaryPointWitness ==
    /\ call.op = "getPointAt"
    /\ call.u = One
    /\ call.t = One
    /\ getPoint(shape, One) # getPoint(shape, Half)

\* C7: of two getUtoTmapping calls (no distance) with u1 < u2 the first
\* returns a t that is not larger than the second's.
RemapMonotonic ==
    [][(/\ call.op = "getUtoTmapping"
        /\ call'.op = "getUtoTmapping"
        /\ call.distance = Undefined
        /\ call'.distance = Undefined
        /\ RLt(call.u, call'.u))
       => RLe(call.ret, call'.ret)]_vars

\* an exact match inside a plateau of the table
RemapMonotonicWitness ==
    /\ call.op = "getUtoTmapping"
    /\ call.distance = Undefined
    /\ call.exact
    /\ call.i >= 1
    /\ call.i + 1 < Len(cacheArcLengths)
    /\ \/ At(cacheArcLengths, call.i + 1) = At(cacheArcLengths, call.i)
       \/ At(cacheArcLengths, call.i - 1) = At(cacheArcLengths, call.i)

\* C8 (as claimed): the target arc length is the distance whenever one is
\* supplied, 0 included, and u * (total length) only when none is.
DistanceVerbatim ==
    call.op = "getUtoTmapping"
    => IF call.distance # Undefined
       THEN call.target = call.distance
       ELSE call.target =
                RMul(call.u, cacheArcLengths[Len(cacheArcLengths)])

\* C9: getPoints(n) returns the n+1 points getPoint(d/n) and
\* getSpacedPoints(n) the n+1 points getPointAt(d/n), d = 0..n in order;
\* without argument both return 6 points.
BulkSampling ==
    /\ call.op = "getPoints"
           => (/\ Len(call.ret) = PointDivisions(call.n) + 1
               /\ call.n = 0 => Len(call.ret) = 6
               /\ \A d \in 0..PointDivisions(call.n) :
                      call.ret[d + 1] =
                          getPoint(shape, Rat(d, PointDivisions(call.n))))
    /\ call.op = "getSpacedPoints"
           => (/\ Len(call.ret) = PointDivisions(call.n) + 1
               /\ call.n = 0 => Len(call.ret) = 6
               /\ \A d \in 0..PointDivisions(call.n) :
                      call.ret[d + 1] =
                          GetPointAt(shape, arcLengthDivisions, Obj,
                                     Rat(d, PointDivisions(call.n))).ret)

\* getSpacedPoints() without argument on a curve of non-uniform speed,
\* where the spaced points are not the native ones
BulkSamplingWitness ==
    /\ call.op = "getSpacedPoints"
    /\ call.n = 0
    /\ Len(call.ret) = 6
    /\ call.ret # GetPoints(shape, 0)

\* C10: on the line getPoint(t) = (10t, 0), getLengths(10) returns
\* 0, 1, ..., 10 and getPointAt(0.5) returns (5, 0) at every resolution of
\* the internal table.
LineExample ==
    shape = "line"
    => (/\ (call.op = "getLengths" /\ call.n = 10)
               => call.ret = [k \in 1..11 |-> FromInt(k - 1)]
        /\ (call.op = "getPointAt" /\ call.u = Half)
               => call.ret = <<FromInt(5), Zero>>)

\* getPointAt(0.5) on the line had to interpolate between two entries
LineExampleWitness ==
    /\ shape = "line"
    /\ call.op = "getPointAt"
    /\ call.u = Half
    /\ ~call.exact
    /\ call.ret = <<FromInt(5), Zero>>

\* the largest index of the table whose entry does not exceed target
LargestIndex(table, target) ==
    CHOOSE i \in 0..(Len(table) - 1) :
        /\ RLe(At(table, i), target)
        /\ \A j \in (i + 1)..(Len(table) - 1) : ~RLe(At(table, j), target)

\* the call was made with a target length the table covers
TargetInTable ==
    /\ RLe(Zero, call.target)
    /\ RLe(call.target, At(cacheArcLengths, Len(cacheArcLengths) - 1))

\* C15 (as claimed): for a target length in [0, table[N-1]] the index
\* getUtoTmapping uses after its search loop is the largest index i with
\* table[i] <= target, and an exact match returns i / (N - 1) for that
\* largest index.
SearchFindsLargest ==
    (call.op = "getUtoTmapping" /\ TargetInTable)
    => (/\ call.i = LargestIndex(cacheArcLengths, call.target)
        /\ call.exact
               => call.ret =
                      Rat(LargestIndex(cacheArcLengths, call.target),
                          Len(cacheArcLengths) - 1))

\* parameters u in [0, 1] on a grid four times finer than Unit
DenseUnit == {Rat(k, 4 * MaxDen) : k \in 0..(4 * MaxDen)}

\* two consecutive entries of the table are equal
HasZeroSegment(table) ==
    \E k \in 1..(Len(table) - 1) : table[k] = table[k + 1]

\* the remapping of u divides by a segment of length zero
DividesByZero(table, u) ==
    LET r == UtoT(table, u, Undefined)
    IN  /\ ~r.exact
        /\ RSub(At(table, r.i + 1), At(table, r.i)) = Zero
        /\ ~IsFinite(r.ret)

\* C16 (as claimed): when the cached table has a zero-length segment (a
\* curve of length zero included), some u in [0, 1] makes getUtoTmapping(u)
\* interpolate over a segment of length zero and return NaN.
DegenerateDividesByZero ==
    (cacheId # 0 /\ HasZeroSegment(cacheArcLengths))
    => \E u \in DenseUnit : DividesByZero(cacheArcLengths, u)

\* C16 (amended): on every cached table, degenerate or not, and for every
\* u in [0, 1], getUtoTmapping(u) either returns on an exact match or
\* interpolates between two entries that differ, table[i] < target <
\* table[i+1], and returns a finite parameter; every remapping call made
\* without distance returned a finite parameter.
DegenerateStaysDefined ==
    /\ cacheId # 0
           => \A u \in DenseUnit :
                  LET r == UtoT(cacheArcLengths, u, Undefined)
                  IN  /\ IsFinite(r.ret)
                      /\ ~r.exact
                             => (/\ RLt(At(cacheArcLengths, r.i), r.target)
                                 /\ RLt(r.target,
                                        At(cacheArcLengths, r.i + 1)))
    /\ (call.op = "getUtoTmapping" /\ call.distance = Undefined)
           => IsFinite(call.ret)
    /\ call.op \in {"getPointAt", "getTangentAt"} => IsFinite(call.t)

\* a remapping call without distance hit a plateau of the table exactly
DegenerateStaysDefinedWitness ==
    /\ call.op = "getUtoTmapping"
    /\ call.distance = Undefined
    /\ HasZeroSegment(cacheArcLengths)
    /\ call.exact
    /\ At(cacheArcLengths, call.i) = At(cacheArcLengths, call.i + 1)
    /\ IsFinite(call.ret)

\* C17 (as claimed): a getUtoTmapping call with u in [0, 1] and no
\* distance, or with a distance in [0, total length], interpolates only
\* between entries inside the table (never reading table[N]) and returns
\* a t in [0, 1].
RemapperInRange ==
    (/\ call.op = "getUtoTmapping"
     /\ IF call.distance = Undefined
        THEN RLe(Zero, call.u) /\ RLe(call.u, One)
        ELSE /\ RLe(Zero, call.distance)
             /\ RLe(call.distance,
                    At(cacheArcLengths, Len(cacheArcLengths) - 1)))
    => (/\ ~call.exact => call.i + 1 <= Len(cacheArcLengths) - 1
        /\ RLe(Zero, call.ret)
        /\ RLe(call.ret, One))

\* C18 (as claimed): updateArcLengths returns with needsUpdate true, has
\* not called getPoint and has left the cached table in place.
InvalidateOnlyMarks ==
    [][call'.op = "updateArcLengths"
       => (/\ needsUpdate'
           /\ call'.sampled = <<>>
           /\ UNCHANGED <<cacheArcLengths, cacheId>>)]_vars

\* C18 (amended): updateArcLengths rebuilds at once: it samples the
\* parameters d/D for the default division count D, stores a newly
\* allocated table of D+1 entries and returns with needsUpdate false; the
\* length query that follows reuses that table when its count is D.
InvalidateRebuilds ==
    [][/\ call'.op = "updateArcLengths"
           => (/\ ~needsUpdate'
               /\ call'.sampled = AllParams(DefaultDivisions)
               /\ cacheId' = nextId + 1
               /\ Len(cacheArcLengths') = DefaultDivisions + 1)
       /\ (call.op = "updateArcLengths" /\ call'.op = "getLengths"
            /\ EffectiveDivisions(arcLengthDivisions, call'.n)
                    = DefaultDivisions)
           => (call'.sampled = <<>> /\ call'.retId = cacheId)]_vars

\* a getLengths() right after updateArcLengths was answered from the
\* table updateArcLengths had built
InvalidateRebuildsWitness ==
    /\ call.op = "getLengths"
    /\ call.n = 0
    /\ call.sampled = <<>>
    /\ invalidatedAt >= 1
    /\ call.retId = invalidatedAt + 1

\* C19: for every t in [0, 1] getTangent evaluates the curve at
\* t1 = max(t - 0.0001, 0) and t2 = min(t + 0.0001, 1), which lie in
\* [0, 1] with t1 < t2.
TangentInDomain ==
    (/\ call.op \in {"getTangent", "getTangentAt"}
     /\ RLe(Zero, call.t)
     /\ RLe(call.t, One))
    => (/\ call.t1 = (IF RLt(RSub(call.t, Rat(1, 10000)), Zero)
                      THEN Zero ELSE RSub(call.t, Rat(1, 10000)))
        /\ call.t2 = (IF RLt(One, RAdd(call.t, Rat(1, 10000)))
                      THEN One ELSE RAdd(call.t, Rat(1, 10000)))
        /\ RLe(Zero, call.t1)
        /\ RLt(call.t1, call.t2)
        /\ RLe(call.t2, One))

\* getTangent was called closer to the end of the domain than delta
TangentInDomainWitness ==
    /\ call.op = "getTangent"
    /\ RLt(call.t, One)
    /\ call.t2 = One
    /\ RLt(Zero, call.t1)

(***************************************************************************)
(* Properties of the frames.  Products of two numbers that both depend on  *)
(* the correction angle are taken in the basis 1, cos, sin, cos^2,         *)
(* cos * sin, with sin^2 replaced by 1 - cos^2.                            *)
(***************************************************************************)
QMul(f, g) ==
    <<RAdd(RMul(f[1], g[1]), RMul(f[3], g[3])),
      RAdd(RMul(f[1], g[2]), RMul(f[2], g[1])),
      RAdd(RMul(f[1], g[3]), RMul(f[3], g[1])),
      RSub(RMul(f[2], g[2]), RMul(f[3], g[3])),
      RAdd(RMul(f[2], g[3]), RMul(f[3], g[2]))>>

QAdd(p, q) == [k \in 1..5 |-> RAdd(p[k], q[k])]

QDot(a, b) ==
    QAdd(QAdd(QMul(a[1], b[1]), QMul(a[2], b[2])), QMul(a[3], b[3]))

QConst(r) == <<r, Zero, Zero, Zero, Zero>>

IsUnit(v) == QDot(v, v) = QConst(One)
Orthogonal(a, b) == QDot(a, b) = QConst(Zero)

VNeg(v) == <<TScale(RNeg(One), v[1]), TScale(RNeg(One), v[2]),
             TScale(RNeg(One), v[3])>>

FramesComputed == frames # NoFrames

\* consecutive tangents i-1 and i (0-based) are collinear: their cross
\* product is not longer than EPSILON
Collinear(i) ==
    ~TLt(EPSILON,
         length(crossVectors(frames.tangents[i], frames.tangents[i + 1])))

\* C11: computeFrenetFrames returns three sequences of segments+1 vectors,
\* and at every index tangent, normal and binormal are unit vectors,
\* mutually orthogonal, with binormal = tangent x normal.
FrameOrthonormal ==
    FramesComputed
    => (/\ Len(frames.tangents) = frameArgs.segments + 1
        /\ Len(frames.normals) = frameArgs.segments + 1
        /\ Len(frames.binormals) = frameArgs.segments + 1
        /\ \A k \in 1..(frameArgs.segments + 1) :
               /\ IsUnit(frames.tangents[k])
               /\ IsUnit(frames.normals[k])
               /\ IsUnit(frames.binormals[k])
               /\ Orthogonal(frames.tangents[k], frames.normals[k])
               /\ Orthogonal(frames.tangents[k], frames.binormals[k])
               /\ Orthogonal(frames.normals[k], frames.binormals[k])
               /\ frames.binormals[k] =
                      crossVectors(frames.tangents[k], frames.normals[k]))

\* frames of a closed curve whose tangents reverse, repeat and turn, with
\* a correction by an angle that is not a multiple of a right angle
FrameOrthonormalWitness ==
    /\ FramesComputed
    /\ frameArgs.closed
    /\ frameArgs.segments = 3
    /\ frames.tangents[2] = VNeg(frames.tangents[1])
    /\ frames.tangents[3] = frames.tangents[2]
    /\ ~Collinear(3)
    /\ ~IsConst(frames.normals[2][1])

\* C12: on a closed curve (tangent[segments] = tangent[0]) frames computed
\* with closed = true have normal[segments] = normal[0].
SeamContinuity ==
    (/\ FramesComputed
     /\ frameArgs.closed
     /\ frames.tangents[frameArgs.segments + 1] = frames.tangents[1])
    => frames.normals[frameArgs.segments + 1] = frames.normals[1]

\* a closed curve whose transported last normal differed from the first
\* one, with the twist of the sign that makes theta negative
SeamContinuityWitness ==
    /\ FramesComputed
    /\ frameArgs.closed
    /\ frames.tangents[frameArgs.segments + 1] = frames.tangents[1]
    /\ frames.transported.normals[frameArgs.segments + 1]
           # frames.transported.normals[1]
    /\ RLt(TwistTheta(frames.tangents, frames.transported.normals,
                      frameArgs.segments), Zero)
    /\ frames.normals[frameArgs.segments + 1] = frames.normals[1]

\* C20 (as claimed): at every index i >= 1 whose tangent is collinear with
\* the previous one, equal or opposite, normal[i] = normal[i-1] and
\* binormal[i] = binormal[i-1] before the closed-curve correction.
CollinearCarryOver ==
    FramesComputed
    => \A i \in 1..frameArgs.segments :
           Collinear(i)
           => (/\ frames.transported.normals[i + 1]
                      = frames.transported.normals[i]
               /\ frames.transported.binormals[i + 1]
                      = frames.transported.binormals[i])

\* C20 (amended): at such an index normal[i] = normal[i-1], and
\* binormal[i] = tangent[i] x normal[i], which is binormal[i-1] when the
\* two tangents are equal and -binormal[i-1] when they are opposite.
CollinearCarriesNormal ==
    FramesComputed
    => \A i \in 1..frameArgs.segments :
           Collinear(i)
           => (/\ frames.transported.normals[i + 1]
                      = frames.transported.normals[i]
               /\ frames.transported.binormals[i + 1]
                      = crossVectors(frames.tangents[i + 1],
                                     frames.transported.normals[i + 1])
               /\ frames.tangents[i + 1] = frames.tangents[i]
                      => frames.transported.binormals[i + 1]
                             = frames.transported.binormals[i]
               /\ frames.tangents[i + 1] = VNeg(frames.tangents[i])
                      => frames.transported.binormals[i + 1]
                             = VNeg(frames.transported.binormals[i]))

\* frames with a tangent exactly opposite to the previous one, after a turn
CollinearCarriesNormalWitness ==
    /\ FramesComputed
    /\ frameArgs.segments >= 2
    /\ ~Collinear(1)
    /\ frames.tangents[3] = VNeg(frames.tangents[2])
    /\ frames.transported.binormals[3] = VNeg(frames.transported.binormals[2])

(***************************************************************************)
(* Properties of the PathFollower.                                         *)
(***************************************************************************)
FollowerWorld == World(follower, tweens)

\* the fields of the follower that say where it is and what it follows
Placement(f) == <<f.path, f.pathTween, f.pathConfig, f.x, f.y, f.rotation>>

\* C13: once stop() was called, whatever the state of the path tween, the
\* follower is not following (isFollowing() is false) until start() or a
\* setPath() that starts is called; pause, resume and the frames of the
\* scene do not bring it back.
StopEndsFollowing == stopped => ~isFollowing(FollowerWorld)

\* C14: a resume() call on a follower with no path tween, or with a path
\* tween that is not paused, invokes no tween operation and leaves path,
\* pathTween, pathConfig, position, rotation and every tween as they were;
\* on a paused path tween it invokes resume on that tween and on nothing
\* else, and the tween leaves the paused state.
ResumeOnlyWhenPaused ==
    [][fcall'.op = "resume"
       => IF follower.pathTween # 0 /\ isPaused(tweens[follower.pathTween])
          THEN /\ fcall'.ops = <<<<"resume", follower.pathTween>>>>
               /\ Placement(follower') = Placement(follower)
               /\ ~isPaused(tweens'[follower.pathTween])
               /\ \A k \in DOMAIN tweens :
                      k # follower.pathTween => tweens'[k] = tweens[k]
          ELSE /\ fcall'.ops = <<>>
               /\ Placement(follower') = Placement(follower)
               /\ tweens' = tweens]_vars

\* resume() was called on a paused path tween, which plays again
ResumeOnlyWhenPausedWitness ==
    /\ fcall = [op |-> "resume", ops |-> <<<<"resume", follower.pathTween>>>>]
    /\ isPlaying(tweens[follower.pathTween])

\* the state of the path tween's data before a step, "none" without a tween
PathTweenState ==
    IF follower.pathTween = 0 THEN "none"
    ELSE tweens[follower.pathTween].data.state

\* the path tween plays forward or backward before a step
PathTweenPlays ==
    PathTweenState \in {TWEEN_CONST.PLAYING_FORWARD, TWEEN_CONST.PLAYING_BACKWARD}

\* C21: a preUpdate on a frame where the tween data state is PLAYING_FORWARD
\* or PLAYING_BACKWARD, the follower's position changed and the state differs
\* from the recorded _prevDirection leaves rotation and flipY unchanged and
\* sets _prevDirection to the state; a preUpdate changes the rotation only on
\* a frame where the state equals _prevDirection and rotateToPath is true;
\* and on a frame where the state is neither playing value, position and
\* rotation are unchanged.
DirectionChangeSkipsRotation ==
    [][fcall'.op = "preUpdate"
       => /\ ( /\ PathTweenPlays
               /\ <<follower'.x, follower'.y>> # <<follower.x, follower.y>>
               /\ PathTweenState # follower.prevDirection )
             => /\ follower'.rotation = follower.rotation
                /\ follower'.flipY = follower.flipY
                /\ follower'.prevDirection = PathTweenState
          /\ follower'.rotation # follower.rotation
             => /\ PathTweenPlays
                /\ PathTweenState = follower.prevDirection
                /\ follower.rotateToPath
          /\ ~PathTweenPlays
             => /\ <<follower'.x, follower'.y>> = <<follower.x, follower.y>>
                /\ follower'.rotation = follower.rotation]_vars

\* a preUpdate met the tween turned backward at the end of the path: the
\* follower stands at the end, the direction is recorded, and rotation and
\* flipY are still those of the forward run
DirectionChangeSkipsRotationWitness ==
    /\ fcall.op = "preUpdate"
    /\ follower.pathTween # 0
    /\ tweens[follower.pathTween].data =
           [state |-> TWEEN_CONST.PLAYING_BACKWARD, current |-> 10]
    /\ follower.prevDirection = TWEEN_CONST.PLAYING_BACKWARD
    /\ <<follower.x, follower.y>> = PathEnd(follower.path)
    /\ follower.rotateToPath
    /\ follower.pathRotationVerticalAdjust
    /\ follower.rotation = AddAngle(ZeroAngle, 1)
    /\ ~follower.flipY

\* a preUpdate on a backward frame after the turn wrote the rotation and
\* flipped the follower
BackwardFrameRotatesWitness ==
    /\ fcall.op = "preUpdate"
    /\ follower.pathTween # 0
    /\ tweens[follower.pathTween].data =
           [state |-> TWEEN_CONST.PLAYING_BACKWARD, current |-> 5]
    /\ follower.prevDirection = TWEEN_CONST.PLAYING_BACKWARD
    /\ follower.rotation = AddAngle(ZeroAngle, 3)
    /\ follower.flipY

\* the tween is still with the tween manager and has not been stopped: it
\* waits to be added, plays or is paused
Live(tween) ==
    tween.state \in {TWEEN_CONST.PENDING_ADD, TWEEN_CONST.ACTIVE,
                     TWEEN_CONST.PAUSED}

====
